---- MODULE Spec2Model ----
(***************************************************************************)
(* A model of timetrax: the SQLite-backed store (src/src/database.rs), the *)
(* accounting functions over it (src/src/business_logic.rs) and the GUI's  *)
(* copy of the current work (src/src/main.rs).                             *)
(*                                                                         *)
(* Time is counted in clock ticks.  An instant is a tick number, a         *)
(* calendar date is the tick number divided by the ticks of one day (what  *)
(* SQLite's date(x,'localtime') and chrono's date_naive() compute), and    *)
(* durations and the expected-time quotas are numbers of ticks.            *)
(* Option<T> is a set with at most one element: None = {}, Some(v) = {v}.  *)
(***************************************************************************)
EXTENDS Integers, Sequences, FiniteSets, TLC

VARIABLES
    now,            \* TimeProvider::now(): the instant the clock shows
    work_items,     \* table work_items: name -> id (all rows are visible)
    work_times,     \* table work_times: start (UNIQUE) -> work_item
    key_value,      \* table key_value: shutdown, default_time, account_start
    expected_time,  \* table expected_time: date -> seconds
    opened,         \* a Database handle is alive
    times,          \* the slice handed to work_times_to_duration
    current_work,   \* Timetrax.current_work: the GUI's copy of the current work
    ret             \* the last call and what it returned

vars ==
    <<now, work_items, work_times, key_value, expected_time, opened, times,
      current_work, ret>>

----------------------------------------------------------------------------
(* Bounds of the model. *)

NumDays == 3
TicksPerDay == 2
MaxEvents == 2
MaxLen == 4

----------------------------------------------------------------------------
(* Values. *)

None == {}
Some(v) == {v}
IsSome(o) == o # {}
Unwrap(o) == CHOOSE v \in o : TRUE

Time == 0 .. (NumDays * TicksPerDay - 1)
Dates == 0 .. (NumDays - 1)
\* The last date the model can represent stands for NaiveDate::MAX.
MaxDate == NumDays - 1

\* date(x,'localtime') in the queries, DateTime::date_naive() in Rust
Date(t) == t \div TicksPerDay

\* "INSERT OR IGNORE ... VALUES ('Standup',NULL,1)": the first row gets id 1
Standup == "Standup"
\* "INSERT OR IGNORE ... VALUES ('default_time', 7*60*60)"
DefaultTime == 7 * 60 * 60

Ok(v) == [ok |-> TRUE, val |-> v]
Err(e) == [ok |-> FALSE, val |-> e]
Inconsistent(d) == [kind |-> "Inconsistent", date |-> d]
DbError == [kind |-> "DbError", date |-> 0 - 1]
Unit == <<>>

\* A finite sum of f over the set S.
RECURSIVE SumOver(_, _)
SumOver(f, S) ==
    IF S = {} THEN 0
    ELSE LET x == CHOOSE y \in S : TRUE
         IN  f[x] + SumOver(f, S \ {x})

----------------------------------------------------------------------------
(* business_logic.rs: work_times_to_duration *)

\* for work in times.windows(2) { if start.0.is_some() { res += end.1 - start.1 } }
RECURSIVE WindowsLoop(_, _, _)
WindowsLoopCountsAll(ts, i, res) ==
    IF i + 1 > Len(ts) THEN res
    ELSE WindowsLoop(ts, i + 1, res + (ts[i + 1].start - ts[i].start))

WindowsLoop(ts, i, res) ==
    IF i + 1 > Len(ts) THEN res
    ELSE WindowsLoop(ts, i + 1,
                     IF IsSome(ts[i].work_item)
                     THEN res + (ts[i + 1].start - ts[i].start)
                     ELSE res)

work_times_to_durationFirstDate(ts) ==
    IF Len(ts) = 0 THEN Ok(0)
    ELSE IF IsSome(ts[Len(ts)].work_item)
         THEN Err(Inconsistent(Date(ts[1].start)))
         ELSE Ok(WindowsLoop(ts, 1, 0))

work_times_to_duration(ts) ==
    IF Len(ts) = 0 THEN Ok(0)
    ELSE IF IsSome(ts[Len(ts)].work_item)
         THEN Err(Inconsistent(Date(ts[Len(ts)].start)))
         ELSE Ok(WindowsLoop(ts, 1, 0))

----------------------------------------------------------------------------
(* database.rs: the tables and the statements over them *)

\* INSERT ... ON CONFLICT DO UPDATE SET v = excluded.v
UpsertKeepsOld(f, k, v) ==
    [x \in (DOMAIN f) \cup {k} |-> IF x \in DOMAIN f THEN f[x] ELSE v]
Upsert(f, k, v) == [x \in (DOMAIN f) \cup {k} |-> IF x = k THEN v ELSE f[x]]
\* INSERT OR IGNORE
InsertOrIgnore(f, k, v) == IF k \in DOMAIN f THEN f ELSE Upsert(f, k, v)

MaxOf(S) == CHOOSE m \in S : \A x \in S : x <= m
MinOf(S) == CHOOSE m \in S : \A x \in S : m <= x

\* INTEGER PRIMARY KEY: a new row gets the largest id plus one
NextId(items) ==
    IF DOMAIN items = {} THEN 1
    ELSE MaxOf({items[n] : n \in DOMAIN items}) + 1
ItemIds(items) == {items[n] : n \in DOMAIN items}

\* ... WHERE date(start,'localtime') = date(?,'localtime')
StartsOn(wt, d) == {t \in DOMAIN wt : Date(t) = d}
\* ... ORDER BY start DESC LIMIT 1, then .optional().flatten()
LastWorkOn(wt, d) ==
    IF StartsOn(wt, d) = {} THEN None ELSE wt[MaxOf(StartsOn(wt, d))]

\* The rows of a set of starts, ORDER BY start ASC.
RECURSIVE RowsAsc(_, _)
RowsAsc(wt, S) ==
    IF S = {} THEN <<>>
    ELSE LET t == MinOf(S)
         IN  <<[work_item |-> wt[t], start |-> t]>> \o RowsAsc(wt, S \ {t})

\* create_default_entries: the result for the tables it writes
DefaultItemsReplaces(items) == Upsert(items, Standup, NextId(items))
DefaultItems(items) == InsertOrIgnore(items, Standup, NextId(items))
DefaultKv(kv) ==
    IF IsSome(kv.default_time) THEN kv
    ELSE [kv EXCEPT !.default_time = Some(DefaultTime)]

\* add_work_end_at_shutdown, line 64: the stored shutdown when its date is
\* before the date of now
LastShutdownOrSameDay(kv, t) ==
    IF IsSome(kv.shutdown) /\ Date(t) >= Date(Unwrap(kv.shutdown))
    THEN kv.shutdown ELSE None
LastShutdown(kv, t) ==
    IF IsSome(kv.shutdown) /\ Date(t) > Date(Unwrap(kv.shutdown))
    THEN kv.shutdown ELSE None

\* add_work_end_at_shutdown: [ok, wt], the call's outcome and the table after
\* it.  The INSERT has no ON CONFLICT clause: a row that already has this
\* start violates UNIQUE, and the statement fails.
RecoveredUpserts(wt, kv, t) ==
    LET last_shutdown == LastShutdown(kv, t) IN
    IF ~IsSome(last_shutdown) THEN [ok |-> TRUE, wt |-> wt]
    ELSE LET shutdown_time == Unwrap(last_shutdown)
             last_work == LastWorkOn(wt, Date(shutdown_time))
         IN  IF ~IsSome(last_work) THEN [ok |-> TRUE, wt |-> wt]
             ELSE [ok |-> TRUE, wt |-> Upsert(wt, shutdown_time, None)]
RecoveredNoLastWorkTest(wt, kv, t) ==
    LET last_shutdown == LastShutdown(kv, t) IN
    IF ~IsSome(last_shutdown) THEN [ok |-> TRUE, wt |-> wt]
    ELSE LET shutdown_time == Unwrap(last_shutdown) IN
         IF shutdown_time \in DOMAIN wt THEN [ok |-> FALSE, wt |-> wt]
         ELSE [ok |-> TRUE, wt |-> Upsert(wt, shutdown_time, None)]
Recovered(wt, kv, t) ==
    LET last_shutdown == LastShutdown(kv, t) IN
    IF ~IsSome(last_shutdown) THEN [ok |-> TRUE, wt |-> wt]
    ELSE LET shutdown_time == Unwrap(last_shutdown)
             last_work == LastWorkOn(wt, Date(shutdown_time))
         IN  IF ~IsSome(last_work) THEN [ok |-> TRUE, wt |-> wt]
             ELSE IF shutdown_time \in DOMAIN wt
                  THEN [ok |-> FALSE, wt |-> wt]
                  ELSE [ok |-> TRUE, wt |-> Upsert(wt, shutdown_time, None)]

\* fix_missing_expected, line 80: the fallback when default_time is not stored
FallbackTime == 666

\* fix_missing_expected: the table after it
RECURSIVE InsertDates(_, _, _)
InsertDates(et, D, secs) ==
    IF D = {} THEN et
    ELSE LET d == MinOf(D)
         IN  InsertDates(InsertOrIgnore(et, d, secs), D \ {d}, secs)
FixedExpectedReplacesToday(et, wt, kv, t) ==
    LET default_time == IF IsSome(kv.default_time) THEN Unwrap(kv.default_time)
                        ELSE FallbackTime
        dates == {Date(s) : s \in DOMAIN wt}
    IN  Upsert(InsertDates(et, dates, default_time), Date(t), default_time)
FixedExpected(et, wt, kv, t) ==
    LET default_time == IF IsSome(kv.default_time) THEN Unwrap(kv.default_time)
                        ELSE FallbackTime
        dates == {Date(s) : s \in DOMAIN wt}
    IN  InsertOrIgnore(InsertDates(et, dates, default_time), Date(t), default_time)

\* shutdown: the key_value table after it
ShutdownKvKeepsFirst(kv, t) ==
    IF IsSome(kv.shutdown) THEN kv ELSE [kv EXCEPT !.shutdown = Some(t)]
ShutdownKv(kv, t) == [kv EXCEPT !.shutdown = Some(t)]

----------------------------------------------------------------------------
(* The store as a state machine: one action per call. *)

Call(op, res) == [op |-> op, res |-> res]

\* No file yet: the tables are created by the first open.
EmptyKv == [shutdown |-> None, default_time |-> None, account_start |-> None]
InitStore ==
    /\ now \in Time
    /\ work_items = <<>>
    /\ work_times = <<>>
    /\ key_value = EmptyKv
    /\ expected_time = <<>>
    /\ opened = FALSE
    /\ times = <<>>
    /\ current_work = None
    /\ ret = Call("none", Ok(Unit))

\* The clock is the caller's (TimeProvider): it may show any instant, and the
\* tests set it back as well as forward (MockTime::advance, by hours or days).
\* A move is a tick or a day, either way; every instant is some moves away.
ClockMoves == {1, 0 - 1, TicksPerDay, 0 - TicksPerDay}
Advance ==
    /\ \E h \in ClockMoves : now + h \in Time /\ now' = now + h
    /\ ret' = Call("advance", Ok(Unit))
    /\ UNCHANGED <<work_items, work_times, key_value, expected_time,
                   opened, times, current_work>>

\* Database::open.  A failing step returns early and drops the handle, and
\* Drop writes the shutdown key.
OpenStore ==
    /\ ~opened
    /\ LET items == DefaultItems(work_items)
           kv == DefaultKv(key_value)
           r == Recovered(work_times, kv, now)
       IN  /\ Cardinality(DOMAIN r.wt) <= MaxEvents
           /\ work_items' = items
           /\ work_times' = r.wt
           /\ IF r.ok
              THEN /\ key_value' = kv
                   /\ expected_time' = FixedExpected(expected_time, r.wt, kv, now)
                   /\ opened' = TRUE
                   /\ ret' = Call("open", Ok(Unit))
              ELSE /\ key_value' = ShutdownKv(kv, now)
                   /\ expected_time' = expected_time
                   /\ opened' = FALSE
                   /\ ret' = Call("open", Err(DbError))
    /\ UNCHANGED <<now, times>>
Open == OpenStore /\ UNCHANGED current_work

\* Drop for Database
Drop ==
    /\ opened
    /\ key_value' = ShutdownKv(key_value, now)
    /\ opened' = FALSE
    /\ ret' = Call("drop", Ok(Unit))
    /\ UNCHANGED <<now, work_items, work_times, expected_time, times,
                   current_work>>

\* Database::shutdown, called on a live handle
Shutdown ==
    /\ opened
    /\ key_value' = ShutdownKv(key_value, now)
    /\ ret' = Call("shutdown", Ok(Unit))
    /\ UNCHANGED <<now, work_items, work_times, expected_time,
                   opened, times, current_work>>

\* Database::add_work_end_at_shutdown, called on a live handle (as the tests do)
AddWorkEndAtShutdown ==
    /\ opened
    /\ \E r \in {Recovered(work_times, key_value, now)} :
           /\ Cardinality(DOMAIN r.wt) <= MaxEvents
           /\ work_times' = r.wt
           /\ ret' = Call("add_work_end_at_shutdown",
                          IF r.ok THEN Ok(Unit) ELSE Err(DbError))
    /\ UNCHANGED <<now, work_items, key_value, expected_time, opened,
                   times, current_work>>

\* Database::fix_missing_expected, called on a live handle (as the tests do)
FixMissingExpected ==
    /\ opened
    /\ expected_time' = FixedExpected(expected_time, work_times, key_value, now)
    /\ ret' = Call("fix_missing_expected", Ok(Unit))
    /\ UNCHANGED <<now, work_items, work_times, key_value, opened,
                   times, current_work>>

\* Database::set_current_work.  The foreign key is enforced (open, line 27):
\* an id that is no row of work_items fails the statement.
SetCurrentWorkNoForeignKey(item) ==
    /\ opened
    /\ now \in DOMAIN work_times \/ Cardinality(DOMAIN work_times) < MaxEvents
    /\ work_times' = Upsert(work_times, now, item)
    /\ ret' = Call("set_current_work", Ok(Unit))
    /\ UNCHANGED <<now, work_items, key_value, expected_time, opened,
                   times, current_work>>
SetCurrentWork(item) ==
    /\ opened
    /\ now \in DOMAIN work_times \/ Cardinality(DOMAIN work_times) < MaxEvents
    /\ IF item \subseteq ItemIds(work_items)
       THEN /\ work_times' = Upsert(work_times, now, item)
            /\ ret' = Call("set_current_work", Ok(Unit))
       ELSE /\ work_times' = work_times
            /\ ret' = Call("set_current_work", Err(DbError))
    /\ UNCHANGED <<now, work_items, key_value, expected_time, opened,
                   times, current_work>>

\* The arguments the callers pass: None, or Some(id) for a small id
MaxItemId == 2
ItemArgs == {None} \cup {Some(i) : i \in 1 .. MaxItemId}

----------------------------------------------------------------------------
(* Recovery at initialization. *)

\* The store right after Database::open has created it at instant 0.
InitOpened ==
    /\ now = 0
    /\ work_items = DefaultItems(<<>>)
    /\ work_times = <<>>
    /\ key_value = DefaultKv(EmptyKv)
    /\ expected_time = FixedExpected(<<>>, <<>>, DefaultKv(EmptyKv), 0)
    /\ opened = TRUE
    /\ times = <<>>
    /\ current_work = None
    /\ ret = Call("open", Ok(Unit))

\* The calls of tests::shutdown, in any order and at any instants.
NextRecovery ==
    \/ Advance
    \/ Shutdown
    \/ AddWorkEndAtShutdown
    \/ \E item \in ItemArgs : SetCurrentWork(item)

SpecRecovery == InitOpened /\ [][NextRecovery]_vars

\* The case recovery is for: a shutdown is stored, its date is before today,
\* and the last row on its date has a work item.
RecoveryDue ==
    /\ IsSome(key_value.shutdown)
    /\ Date(Unwrap(key_value.shutdown)) < Date(now)
    /\ IsSome(LastWorkOn(work_times, Date(Unwrap(key_value.shutdown))))

\* C1: when a shutdown is stored whose date is before today and the last row
\* on that date has a work item, add_work_end_at_shutdown succeeds and adds
\* exactly one row, a stop marker at the stored shutdown instant; run again
\* on the same stored shutdown, it adds nothing.
C1_RecoveryInsertsOneStop ==
    [][(ret'.op = "add_work_end_at_shutdown" /\ RecoveryDue) =>
        /\ ret'.res.ok
        /\ Unwrap(key_value.shutdown) \notin DOMAIN work_times
        /\ work_times' = Upsert(work_times, Unwrap(key_value.shutdown), None)
        /\ Recovered(work_times', key_value', now').wt = work_times']_vars

\* What holds of recovery: the claim, for a log that has no row at the stored
\* shutdown instant; with a row there, the INSERT fails and nothing is added.
RecoveryInsertsUnlessRowAtShutdown ==
    [][(ret'.op = "add_work_end_at_shutdown" /\ RecoveryDue) =>
        IF Unwrap(key_value.shutdown) \in DOMAIN work_times
        THEN ret'.res = Err(DbError) /\ work_times' = work_times
        ELSE /\ ret'.res.ok
             /\ work_times' = Upsert(work_times, Unwrap(key_value.shutdown), None)
             /\ Recovered(work_times', key_value', now').wt = work_times']_vars

\* C2: in every other case (no shutdown stored, its date is today's or later,
\* its date has no rows, or the last row on its date is a stop marker)
\* add_work_end_at_shutdown succeeds and leaves work_times as it was.
C2_RecoveryElseLeavesLog ==
    [][(ret'.op = "add_work_end_at_shutdown" /\ ~RecoveryDue) =>
        /\ ret'.res.ok
        /\ work_times' = work_times]_vars

\* add_work_end_at_shutdown has run on a later day than the stored shutdown,
\* whose date ends in a stop marker written by set_current_work (it is not at
\* the shutdown instant) after the row that started the work.
C2_Witness ==
    /\ ret = Call("add_work_end_at_shutdown", Ok(Unit))
    /\ IsSome(key_value.shutdown)
    /\ Date(Unwrap(key_value.shutdown)) < Date(now)
    /\ Unwrap(key_value.shutdown) \notin DOMAIN work_times
    /\ StartsOn(work_times, Date(Unwrap(key_value.shutdown))) # {}
    /\ ~IsSome(LastWorkOn(work_times, Date(Unwrap(key_value.shutdown))))
    /\ \E t \in DOMAIN work_times : IsSome(work_times[t])

----------------------------------------------------------------------------
(* business_logic.rs: quotas, the per-day ledger and the net time. *)

\* Database methods business_logic.rs calls whose code is not in database.rs.
get_start_day(wt) ==
    IF DOMAIN wt = {} THEN None ELSE Some(Date(MinOf(DOMAIN wt)))
get_work_on_date(wt, d) == RowsAsc(wt, StartsOn(wt, d))
get_expected_work(et, d) == IF d \in DOMAIN et THEN Some(et[d]) ELSE None
set_expected_time(et, d, secs) == Upsert(et, d, secs)

\* date.weekday(), Monday = 0: the model's date 0 is a Thursday.
EpochWeekday == 3
Weekday(d) == (d + EpochWeekday) % 7
\* holiday_de::GermanRegion::BadenWuerttemberg.is_holiday(date): date 0 is one.
Holidays == {0}

get_default_timeNoHoliday(kv, d) ==
    IF Weekday(d) \in {5, 6} THEN 0
    ELSE Unwrap(kv.default_time)

get_default_time(kv, d) ==
    IF Weekday(d) \in {5, 6} THEN 0
    ELSE IF d \in Holidays THEN 0
    ELSE Unwrap(kv.default_time)

\* get_expected_work_or_insert_default: [val, et], the quota and the table after
get_expected_work_or_insert_defaultNoInsert(et, kv, d) ==
    IF IsSome(get_expected_work(et, d))
    THEN [val |-> Unwrap(get_expected_work(et, d)), et |-> et]
    ELSE [val |-> get_default_time(kv, d), et |-> et]

get_expected_work_or_insert_defaultOverwrites(et, kv, d) ==
    [val |-> get_default_time(kv, d),
     et |-> set_expected_time(et, d, get_default_time(kv, d))]

get_expected_work_or_insert_default(et, kv, d) ==
    IF IsSome(get_expected_work(et, d))
    THEN [val |-> Unwrap(get_expected_work(et, d)), et |-> et]
    ELSE [val |-> get_default_time(kv, d),
          et |-> set_expected_time(et, d, get_default_time(kv, d))]

\* DateRange::next decides the end of the loop.
DateRangeDone(current, end) == current = end

\* get_work_time_by_day, the loop over DateRange::new(start_day, today):
\* [panic, result, et].  next() returns None when current = end; otherwise it
\* adds a day to current before it yields, which panics on NaiveDate::MAX.
RECURSIVE LedgerLoop(_, _, _, _, _, _)
LedgerLoopDropsBadDay(current, end, wt, kv, et, result) ==
    IF DateRangeDone(current, end)
    THEN [panic |-> FALSE, result |-> result, et |-> et]
    ELSE IF current >= MaxDate
    THEN [panic |-> TRUE, result |-> result, et |-> et]
    ELSE LET work_done == work_times_to_duration(get_work_on_date(wt, current))
             expected == get_expected_work_or_insert_default(et, kv, current)
         IN  LedgerLoop(current + 1, end, wt, kv, expected.et,
                        IF work_done.ok
                        THEN Upsert(result, current,
                                    [work_done |-> work_done, expected |-> expected.val])
                        ELSE result)

LedgerLoop(current, end, wt, kv, et, result) ==
    IF DateRangeDone(current, end)
    THEN [panic |-> FALSE, result |-> result, et |-> et]
    ELSE IF current >= MaxDate
    THEN [panic |-> TRUE, result |-> result, et |-> et]
    ELSE LET work_done == work_times_to_duration(get_work_on_date(wt, current))
             expected == get_expected_work_or_insert_default(et, kv, current)
         IN  LedgerLoop(current + 1, end, wt, kv, expected.et,
                        Upsert(result, current,
                               [work_done |-> work_done, expected |-> expected.val]))

get_work_time_by_day(wt, kv, et, t) ==
    IF IsSome(get_start_day(wt))
    THEN LedgerLoop(Unwrap(get_start_day(wt)), Date(t), wt, kv, et, <<>>)
    ELSE [panic |-> FALSE, result |-> <<>>, et |-> et]

\* time_diff, the loop over the HashMap: order is the order its iterator
\* yields the dates in.
RECURSIVE TimeDiffLoopSkipsErrors(_, _, _, _)
TimeDiffLoopSkipsErrors(ledger, order, i, res) ==
    IF i > Len(order) THEN Ok(res)
    ELSE LET workday_time == ledger[order[i]]
         IN  IF ~workday_time.work_done.ok
             THEN TimeDiffLoopSkipsErrors(ledger, order, i + 1, res)
             ELSE TimeDiffLoopSkipsErrors(ledger, order, i + 1,
                      res + workday_time.work_done.val - workday_time.expected)
RECURSIVE TimeDiffLoop(_, _, _, _)
TimeDiffLoop(ledger, order, i, res) ==
    IF i > Len(order) THEN Ok(res)
    ELSE LET workday_time == ledger[order[i]]
         IN  IF ~workday_time.work_done.ok
             THEN Err(workday_time.work_done.val)
             ELSE TimeDiffLoop(ledger, order, i + 1,
                      res + workday_time.work_done.val - workday_time.expected)

\* The orders a HashMap over the keys S may be iterated in: all of them.
RECURSIVE Orders(_)
Orders(S) ==
    IF S = {} THEN {<<>>}
    ELSE UNION {{<<x>> \o o : o \in Orders(S \ {x})} : x \in S}

Panic == [kind |-> "Panic", date |-> 0 - 1]

----------------------------------------------------------------------------
(* database.rs: get_time_diff *)

\* ... WHERE date(start,'localtime') < date(?,'localtime') ORDER BY start ASC
RowsBefore(wt, t) == RowsAsc(wt, {s \in DOMAIN wt : Date(s) < Date(t)})
\* SELECT coalesce(sum(seconds), 0) FROM expected_time WHERE "date" < date(?)
ExpectedBefore(et, t) == SumOver(et, {d \in DOMAIN et : d < Date(t)})

\* The loop over the rows: current_time is an Option, set at every row that
\* has a work item, and read at every row.
RECURSIVE GetTimeDiffLoop(_, _, _, _)
GetTimeDiffLoop(rows, i, current_time, total_time) ==
    IF i > Len(rows) THEN total_time
    ELSE LET total == IF IsSome(current_time)
                      THEN total_time + (rows[i].start - Unwrap(current_time))
                      ELSE total_time
             ctime == IF IsSome(rows[i].work_item)
                      THEN Some(rows[i].start)
                      ELSE current_time
         IN  GetTimeDiffLoop(rows, i + 1, ctime, total)

get_time_diff(wt, kv, et, t) ==
    LET total_time == IF IsSome(kv.account_start) THEN Unwrap(kv.account_start) ELSE 0
    IN  GetTimeDiffLoop(RowsBefore(wt, t), 1, None, total_time) - ExpectedBefore(et, t)

----------------------------------------------------------------------------
(* The accounting calls as actions. *)

GetWorkTimeByDay ==
    /\ opened
    /\ \E r \in {get_work_time_by_day(work_times, key_value, expected_time, now)} :
           /\ expected_time' = r.et
           /\ ret' = Call("get_work_time_by_day",
                          IF r.panic THEN Err(Panic) ELSE Ok(r.result))
    /\ UNCHANGED <<now, work_items, work_times, key_value, opened,
                   times, current_work>>

TimeDiff ==
    /\ opened
    /\ \E r \in {get_work_time_by_day(work_times, key_value, expected_time, now)} :
           /\ expected_time' = r.et
           /\ IF r.panic
              THEN ret' = Call("time_diff", Err(Panic))
              ELSE \E order \in Orders(DOMAIN r.result) :
                      ret' = Call("time_diff", TimeDiffLoop(r.result, order, 1, 0))
    /\ UNCHANGED <<now, work_items, work_times, key_value, opened,
                   times, current_work>>

GetTimeDiff ==
    /\ opened
    /\ ret' = Call("get_time_diff",
                   Ok(get_time_diff(work_times, key_value, expected_time, now)))
    /\ UNCHANGED <<now, work_items, work_times, key_value,
                   expected_time, opened, times, current_work>>

----------------------------------------------------------------------------
(* work_times_to_duration as a function of its argument. *)

\* The sets of at most n elements of S.
SubsetsUpTo(S, n) == {X \in SUBSET S : Cardinality(X) <= n}

\* The values of a work_item column: NULL or one of two ids.
ItemVals == {None, Some(1), Some(2)}

\* Every list of rows ascending by start, of at most n rows: what a
\* SELECT ... ORDER BY start ASC can return.
EventSeqs(n) ==
    {RowsAsc(f, DOMAIN f) :
        f \in UNION {[S -> ItemVals] : S \in SubsetsUpTo(Time, n)}}

InitDuration ==
    /\ now = 0
    /\ work_items = <<>>
    /\ work_times = <<>>
    /\ key_value = EmptyKv
    /\ expected_time = <<>>
    /\ opened = FALSE
    /\ times \in EventSeqs(MaxLen)
    /\ current_work = None
    /\ ret = Call("none", Ok(Unit))

WorkTimesToDuration ==
    /\ ret' = Call("work_times_to_duration", work_times_to_duration(times))
    /\ UNCHANGED <<now, work_items, work_times, key_value,
                   expected_time, opened, times, current_work>>

SpecDuration == InitDuration /\ [][WorkTimesToDuration]_vars

EndsInStop(ts) == Len(ts) > 0 /\ ~IsSome(ts[Len(ts)].work_item)

\* The maximal Working intervals of a list: <<i, j>> where row i starts work
\* (the row before it, if any, is a stop marker) and row j is the first stop
\* marker after it.
WorkingIntervals(ts) ==
    {<<i, j>> \in (1 .. Len(ts)) \X (1 .. Len(ts)) :
        /\ i < j
        /\ IsSome(ts[i].work_item)
        /\ i = 1 \/ ~IsSome(ts[i - 1].work_item)
        /\ ~IsSome(ts[j].work_item)
        /\ \A k \in (i + 1) .. (j - 1) : IsSome(ts[k].work_item)}
IntervalSum(ts) ==
    SumOver([p \in WorkingIntervals(ts) |-> ts[p[2]].start - ts[p[1]].start],
            WorkingIntervals(ts))
\* The consecutive pairs whose first row has a work item.
WorkPairs(ts) == {i \in 1 .. (Len(ts) - 1) : IsSome(ts[i].work_item)}
PairSum(ts) ==
    SumOver([i \in WorkPairs(ts) |-> ts[i + 1].start - ts[i].start], WorkPairs(ts))

\* C3: for a non-empty ascending list that ends in a stop marker,
\* work_times_to_duration succeeds with the sum of (second start - first start)
\* over the consecutive pairs whose first row has a work item, which is the sum
\* of (stop - start) over the maximal Working intervals: idle gaps add nothing
\* and a switch from one item to another is continuous work.
C3_DurationIsWorkingTime ==
    (ret.op = "work_times_to_duration" /\ EndsInStop(times)) =>
        /\ ret.res = Ok(PairSum(times))
        /\ ret.res = Ok(IntervalSum(times))

\* A computed list of one date with an idle gap is out of reach of two ticks a
\* day, so the witness is a list with work, an idle gap, a switch of items and
\* a final stop.
C3_Witness ==
    /\ ret.op = "work_times_to_duration"
    /\ EndsInStop(times)
    /\ Len(times) = 4
    /\ IsSome(times[1].work_item)
    /\ ~IsSome(times[2].work_item)
    /\ IsSome(times[3].work_item)
    /\ times[3].start - times[2].start > 0
    /\ ret.res = Ok((times[2].start - times[1].start) + (times[4].start - times[3].start))

\* C4: for a non-empty ascending list whose last row has a work item,
\* work_times_to_duration fails with Inconsistent(date of the last row),
\* whatever the earlier rows are.
C4_OpenEndIsInconsistent ==
    (ret.op = "work_times_to_duration" /\ Len(times) > 0 /\ ~EndsInStop(times)) =>
        ret.res = Err(Inconsistent(Date(times[Len(times)].start)))

C4_Witness ==
    /\ ret.op = "work_times_to_duration"
    /\ Len(times) = 3
    /\ ~IsSome(times[2].work_item)
    /\ IsSome(times[3].work_item)
    /\ Date(times[1].start) < Date(times[3].start)
    /\ ret.res = Err(Inconsistent(Date(times[3].start)))

----------------------------------------------------------------------------
(* The per-day ledger over a store that is written to. *)

NextLedger ==
    \/ Advance
    \/ \E item \in ItemArgs : SetCurrentWork(item)
    \/ GetWorkTimeByDay
    \/ TimeDiff

SpecLedger == InitOpened /\ [][NextLedger]_vars


\* The closed days: from the date of the first row up to today, today excluded.
LedgerRange ==
    IF DOMAIN work_times = {} THEN {}
    ELSE {d \in Dates : Date(MinOf(DOMAIN work_times)) <= d /\ d < Date(now)}
\* The closed days whose last row has a work item.
BadDays == {d \in LedgerRange : IsSome(LastWorkOn(work_times, d))}
\* The work of a date: the pair sum of its rows.
DayWork(d) == PairSum(get_work_on_date(work_times, d))
ClockIsBack == DOMAIN work_times # {} /\ Date(MinOf(DOMAIN work_times)) > Date(now)

\* C5: get_work_time_by_day returns an entry for exactly the dates from the
\* first row's date up to today, today excluded; a date without rows has
\* work_done 0; an empty log gives the empty map.
C5_LedgerCoversClosedDays ==
    ret.op = "get_work_time_by_day" =>
        /\ ret.res.ok
        /\ DOMAIN ret.res.val = LedgerRange
        /\ \A d \in LedgerRange :
              StartsOn(work_times, d) = {} => ret.res.val[d].work_done = Ok(0)

\* What holds of the dates: the claim, unless the first row's date is after
\* today; then the loop runs to the last date there is and panics.
LedgerCoversClosedDaysUnlessBack ==
    ret.op = "get_work_time_by_day" =>
        IF ClockIsBack THEN ret.res = Err(Panic)
        ELSE /\ ret.res.ok
             /\ DOMAIN ret.res.val = LedgerRange
             /\ \A d \in LedgerRange :
                   StartsOn(work_times, d) = {} => ret.res.val[d].work_done = Ok(0)

\* C6: when a closed day's last row has a work item, get_work_time_by_day
\* succeeds; that day's entry has work_done Inconsistent(that date) and the
\* day's quota (the stored one, or the default for a date that had none) as
\* expected; every other day's entry is that day's own work and quota.
C6_InconsistentDayIsCarried ==
    [][(ret'.op = "get_work_time_by_day" /\ BadDays # {}) =>
        /\ ret'.res.ok
        /\ BadDays \subseteq DOMAIN ret'.res.val
        /\ \A d \in DOMAIN ret'.res.val :
              /\ ret'.res.val[d].expected =
                    IF d \in DOMAIN expected_time THEN expected_time[d]
                    ELSE get_default_time(key_value, d)
              /\ ret'.res.val[d].expected = expected_time'[d]
              /\ ret'.res.val[d].work_done =
                    IF d \in BadDays THEN Err(Inconsistent(d)) ELSE Ok(DayWork(d))]_vars

\* An inconsistent day beside a consistent one, both carried in one ledger.
C6_Witness ==
    /\ ret.op = "get_work_time_by_day"
    /\ ret.res.ok
    /\ \E d \in BadDays : ret.res.val[d].work_done = Err(Inconsistent(d))
    /\ \E d \in LedgerRange \ BadDays : ret.res.val[d].work_done.ok

\* C7 as stated: when a closed day is inconsistent, time_diff fails with
\* Inconsistent(d) for the earliest such date d.
C7_ErrorIsEarliestBadDay ==
    (ret.op = "time_diff" /\ BadDays # {}) =>
        ret.res = Err(Inconsistent(MinOf(BadDays)))

\* C7 as amended: when a closed day is inconsistent, time_diff fails with
\* Inconsistent(d) for one of the inconsistent closed days d (the ledger is a
\* HashMap, and the first failure in its iteration order is returned); it
\* never succeeds over an inconsistent day.
C7_ErrorIsSomeBadDay ==
    (ret.op = "time_diff" /\ BadDays # {}) =>
        /\ ~ret.res.ok
        /\ \E d \in BadDays : ret.res.val = Inconsistent(d)

\* Two inconsistent closed days, and the later one is the one reported.
C7_Witness ==
    /\ ret.op = "time_diff"
    /\ Cardinality(BadDays) >= 2
    /\ ret.res = Err(Inconsistent(MaxOf(BadDays)))

\* C8: when every closed day is consistent, time_diff returns the sum over the
\* closed days of (work done - expected); today's rows and quota add nothing.
C8_TimeDiffIsSum ==
    (ret.op = "time_diff" /\ BadDays = {}) =>
        /\ LedgerRange \subseteq DOMAIN expected_time
        /\ ret.res = Ok(SumOver([d \in LedgerRange |-> DayWork(d) - expected_time[d]],
                                LedgerRange))

\* What holds of the sum: the claim, unless the first row's date is after today.
TimeDiffIsSumUnlessBack ==
    (ret.op = "time_diff" /\ BadDays = {}) =>
        IF ClockIsBack THEN ret.res = Err(Panic)
        ELSE /\ LedgerRange \subseteq DOMAIN expected_time
             /\ ret.res = Ok(SumOver([d \in LedgerRange |-> DayWork(d) - expected_time[d]],
                                     LedgerRange))

----------------------------------------------------------------------------
(* get_time_diff and time_diff as functions of the tables. *)

MaxRows == 4

\* What set_current_work can have written: at most n rows, at any
\* instants, each a stop marker or the item Standup.
StoreRows(n) ==
    UNION {[S -> {None, Some(1)}] : S \in SubsetsUpTo(Time, n)}

\* The account_start the test stores (3*60*60), or none.
AccountStarts == {None, Some(3 * 60 * 60)}

\* The expected_time rows fix_missing_expected has left: of an open at some
\* instant before the rows were written, or of one at now, after them.
ExpectedTables(wt, kv, t) ==
    {FixedExpected(<<>>, <<>>, kv, t0) : t0 \in Time}
        \cup {FixedExpected(<<>>, wt, kv, t)}

InitDiff ==
    /\ now \in Time
    /\ work_items = DefaultItems(<<>>)
    /\ work_times \in StoreRows(MaxRows)
    /\ \E a \in AccountStarts :
          key_value = [DefaultKv(EmptyKv) EXCEPT !.account_start = a]
    /\ expected_time \in ExpectedTables(work_times, DefaultKv(EmptyKv), now)
    /\ opened = TRUE
    /\ times = <<>>
    /\ current_work = None
    /\ ret = Call("open", Ok(Unit))

NextDiff ==
    \/ GetTimeDiff
    \/ TimeDiff

SpecDiff == InitDiff /\ [][NextDiff]_vars

\* C9: with no closed day inconsistent and no account_start, get_time_diff
\* returns what time_diff returns (here: called right after it, on the tables
\* time_diff has left).
C9_DiffsAgree ==
    (ret.op = "time_diff" /\ ret.res.ok /\ ~IsSome(key_value.account_start)) =>
        ret.res.val = get_time_diff(work_times, key_value, expected_time, now)

\* The two differ on the work alone: the same, over stores whose expected_time
\* rows before today are those of the closed days.
DiffsAgreeOnWork ==
    (/\ ret.op = "time_diff" /\ ret.res.ok /\ ~IsSome(key_value.account_start)
     /\ {d \in DOMAIN expected_time : d < Date(now)} = LedgerRange) =>
        ret.res.val = get_time_diff(work_times, key_value, expected_time, now)

\* C10: get_time_diff returns account_start (0 without the key) plus the time
\* in the Working state before today (from a row with a work item to the next
\* row; nothing from a stop marker to the next row) minus the expected_time
\* seconds of the dates before today.
C10_GetTimeDiffIsWorkMinusExpected ==
    ret.op = "get_time_diff" =>
        ret.res = Ok((IF IsSome(key_value.account_start)
                      THEN Unwrap(key_value.account_start) ELSE 0)
                     + PairSum(RowsBefore(work_times, now))
                     - ExpectedBefore(expected_time, now))

\* What holds of get_time_diff: the claim for logs in which no row follows a
\* stop marker before today.
NoRowAfterStop ==
    \A i \in 1 .. (Len(RowsBefore(work_times, now)) - 1) :
        IsSome(RowsBefore(work_times, now)[i].work_item)
GetTimeDiffWithoutIdleGaps ==
    (ret.op = "get_time_diff" /\ NoRowAfterStop) =>
        ret.res = Ok((IF IsSome(key_value.account_start)
                      THEN Unwrap(key_value.account_start) ELSE 0)
                     + PairSum(RowsBefore(work_times, now))
                     - ExpectedBefore(expected_time, now))

----------------------------------------------------------------------------
(* The quotas: get_default_time and get_expected_work_or_insert_default. *)

MaxQuotaDate == 6
\* The dates the quota functions are asked about: a whole week from date 0.
QuotaDates == 0 .. MaxQuotaDate
\* The values the default_time row is given: the one create_default_entries
\* writes, and the 8 hours of the tests.
DefaultTimes == {DefaultTime, 8 * 60 * 60}

CallOn(op, arg, res) == [op |-> op, arg |-> arg, res |-> res]

\* The row default_time of key_value is rewritten (there is no setter in the
\* sources; create_default_entries only inserts it when it is missing).
SetDefaultTime(v) ==
    /\ opened
    /\ key_value' = [key_value EXCEPT !.default_time = Some(v)]
    /\ ret' = CallOn("set_default_time", v, Ok(Unit))
    /\ UNCHANGED <<now, work_items, work_times, expected_time,
                   opened, times, current_work>>

GetDefaultTime(d) ==
    /\ opened
    /\ ret' = CallOn("get_default_time", d, Ok(get_default_time(key_value, d)))
    /\ UNCHANGED <<now, work_items, work_times, key_value,
                   expected_time, opened, times, current_work>>

GetExpectedWorkOrInsertDefault(d) ==
    /\ opened
    /\ \E r \in {get_expected_work_or_insert_default(expected_time, key_value, d)} :
           /\ expected_time' = r.et
           /\ ret' = CallOn("get_expected_work_or_insert_default", d, Ok(r.val))
    /\ UNCHANGED <<now, work_items, work_times, key_value, opened,
                   times, current_work>>

NextQuota ==
    \/ \E v \in DefaultTimes : SetDefaultTime(v)
    \/ \E d \in QuotaDates : GetDefaultTime(d)
    \/ \E d \in QuotaDates : GetExpectedWorkOrInsertDefault(d)

SpecQuota == InitOpened /\ [][NextQuota]_vars

Saturday == 5
Sunday == 6
IsWeekend(d) == \E k \in 0 .. MaxQuotaDate : d + EpochWeekday \in {7 * k + Saturday, 7 * k + Sunday}

\* C11: get_expected_work_or_insert_default on a date with no expected_time
\* row stores the default quota resolved now and returns it; on a date with a
\* row it returns the row's value and writes nothing; and a change of
\* default_time leaves every row as it is, so each later call for the date
\* returns the value the first one stored.
C11_ExpectedIsStable ==
    [][/\ \A d \in DOMAIN expected_time :
              d \in DOMAIN expected_time' /\ expected_time'[d] = expected_time[d]
       /\ ret'.op = "get_expected_work_or_insert_default" =>
              /\ ret'.arg \in DOMAIN expected_time'
              /\ ret'.res = Ok(expected_time'[ret'.arg])
              /\ DOMAIN expected_time' = DOMAIN expected_time \cup {ret'.arg}
              /\ ret'.arg \notin DOMAIN expected_time =>
                    expected_time'[ret'.arg] = get_default_time(key_value, ret'.arg)]_vars

\* A date whose row holds a quota other than the one default_time gives now,
\* and the call has returned the row's value.
C11_Witness ==
    /\ ret.op = "get_expected_work_or_insert_default"
    /\ ret.arg \notin Holidays /\ ~IsWeekend(ret.arg)
    /\ ret.res = Ok(expected_time[ret.arg])
    /\ ret.res.val # get_default_time(key_value, ret.arg)

\* C12: get_default_time returns 0 for a Saturday, a Sunday and a holiday, and
\* the stored default_time for every other date.
C12_DefaultQuota ==
    ret.op = "get_default_time" =>
        ret.res = Ok(IF IsWeekend(ret.arg) \/ ret.arg \in Holidays
                     THEN 0 ELSE Unwrap(key_value.default_time))

\* A call for a holiday that is no weekend day, after default_time was changed.
C12_Witness ==
    /\ ret.op = "get_default_time"
    /\ ~IsWeekend(ret.arg) /\ ret.arg \in Holidays
    /\ key_value.default_time = Some(8 * 60 * 60)
    /\ ret.res = Ok(0)

----------------------------------------------------------------------------
(* The session log under set_current_work and get_current_work. *)

\* get_current_work: the same query as last_work, for the date of now
get_current_workAnyDay(wt, t) ==
    IF DOMAIN wt = {} THEN None ELSE wt[MaxOf(DOMAIN wt)]
get_current_work(wt, t) == LastWorkOn(wt, Date(t))

GetCurrentWork ==
    /\ opened
    /\ ret' = Call("get_current_work", Ok(get_current_work(work_times, now)))
    /\ UNCHANGED <<now, work_items, work_times, key_value,
                   expected_time, opened, times, current_work>>

NextSession ==
    \/ Advance
    \/ \E item \in ItemArgs : SetCurrentWork(item)
    \/ GetCurrentWork

SpecSession == InitOpened /\ [][NextSession]_vars

\* C13: a set_current_work that succeeds leaves one row at the instant of now,
\* holding the value written: at an instant that has a row the number of rows
\* stays and the row's work_item becomes the new value, at any other instant
\* one row is added; the rows at other instants stay as they are.
C13_OneRowPerInstant ==
    [][\A item \in ItemArgs :
          (ret'.op = "set_current_work" /\ ret'.res.ok /\ SetCurrentWork(item)) =>
              /\ Cardinality(DOMAIN work_times') =
                    Cardinality(DOMAIN work_times)
                        + (IF now \in DOMAIN work_times THEN 0 ELSE 1)
              /\ now \in DOMAIN work_times'
              /\ work_times'[now] = item
              /\ \A t \in DOMAIN work_times \ {now} :
                    t \in DOMAIN work_times' /\ work_times'[t] = work_times[t]]_vars

\* A write has succeeded at an instant that is not the latest of the log, and
\* the log is as long as it gets: the row at now holds a stop marker.
C13_Witness ==
    /\ ret.op = "set_current_work" /\ ret.res.ok
    /\ Cardinality(DOMAIN work_times) = MaxEvents
    /\ now \in DOMAIN work_times
    /\ work_times[now] = None
    /\ \E t \in DOMAIN work_times : t > now /\ IsSome(work_times[t])

\* The rows of today, and those of them that are not after now.
RowsToday == {t \in DOMAIN work_times : Date(t) = Date(now)}
RowsTodaySoFar == {t \in RowsToday : t <= now}
IsLatest(t, S) == t \in S /\ \A u \in S : u <= t

\* C14 as stated: get_current_work returns the work_item of the latest row of
\* today, and None when today has no row or the latest is a stop marker; and
\* when the last row written today up to now holds Some(i), it returns Some(i).
C14_CurrentWorkIsLatestWritten ==
    ret.op = "get_current_work" =>
        /\ ret.res.ok
        /\ RowsToday = {} => ret.res.val = None
        /\ \A t \in RowsToday : IsLatest(t, RowsToday) => ret.res.val = work_times[t]
        /\ \A t \in RowsTodaySoFar :
              (IsLatest(t, RowsTodaySoFar) /\ IsSome(work_times[t])) =>
                  ret.res.val = work_times[t]

\* C14 as amended: the same, where the last row written today up to now is
\* the latest row of today (no row of today is after now).
C14_CurrentWorkIsLatestOfToday ==
    ret.op = "get_current_work" =>
        /\ ret.res.ok
        /\ RowsToday = {} => ret.res.val = None
        /\ \A t \in RowsToday : IsLatest(t, RowsToday) => ret.res.val = work_times[t]
        /\ \A t \in RowsTodaySoFar :
              (IsLatest(t, RowsToday) /\ IsSome(work_times[t])) =>
                  ret.res.val = work_times[t]

\* Work was set earlier today, the clock has moved on within the day, and
\* get_current_work returns the item.
C14_Witness ==
    /\ ret.op = "get_current_work"
    /\ now \notin DOMAIN work_times
    /\ \E t \in RowsTodaySoFar : IsLatest(t, RowsToday) /\ ret.res = Ok(work_times[t])
    /\ IsSome(ret.res.val)

----------------------------------------------------------------------------
(* The work-item catalog: add_work_item, get_available_work, and the foreign
   key of work_times. *)

\* The names the callers add: the default item's and three more.
Names == {Standup, "Coding", "Review", "Meeting"}

\* add_work_item: [n, items], the number of rows the INSERT OR IGNORE has
\* changed and the table after it
add_work_itemReplaces(items, name) ==
    [n |-> 1, items |-> Upsert(items, name, NextId(items))]
add_work_item(items, name) ==
    IF name \in DOMAIN items THEN [n |-> 0, items |-> items]
    ELSE [n |-> 1, items |-> Upsert(items, name, NextId(items))]

\* get_available_work: the (name, id) pairs of the visible rows; every row is
\* inserted with visible = 1 and no statement changes it
get_available_work(items) == {<<n, items[n]>> : n \in DOMAIN items}

AddWorkItem(name) ==
    /\ opened
    /\ \E r \in {add_work_item(work_items, name)} :
           /\ work_items' = r.items
           /\ ret' = CallOn("add_work_item", name, Ok(r.n))
    /\ UNCHANGED <<now, work_times, key_value, expected_time, opened,
                   times, current_work>>

GetAvailableWork ==
    /\ opened
    /\ ret' = Call("get_available_work", Ok(get_available_work(work_items)))
    /\ UNCHANGED <<now, work_items, work_times, key_value,
                   expected_time, opened, times, current_work>>

NextCatalog ==
    \/ \E name \in Names : AddWorkItem(name)
    \/ GetAvailableWork
    \/ \E item \in ItemArgs : SetCurrentWork(item)

SpecCatalog == InitOpened /\ [][NextCatalog]_vars

\* C15: add_work_item(name) for a name no row has adds one row, visible, with
\* that name and an id no row had, and returns 1: get_available_work has the
\* pairs it had and one more; for a name that has a row it changes nothing and
\* returns 0, without an error.
C15_AddIfAbsent ==
    [][ret'.op = "add_work_item" =>
          IF ret'.arg \in DOMAIN work_items
          THEN /\ ret'.res = Ok(0)
               /\ work_items' = work_items
          ELSE /\ ret'.res = Ok(1)
               /\ get_available_work(work_items) \subseteq get_available_work(work_items')
               /\ Cardinality(get_available_work(work_items')) =
                     Cardinality(get_available_work(work_items)) + 1
               /\ \E p \in get_available_work(work_items') :
                     /\ p[1] = ret'.arg
                     /\ p[2] \notin ItemIds(work_items)]_vars

\* The name was added before and is added again: nothing is created, and the
\* catalog holds it beside the default item and another one.
C15_Witness ==
    /\ ret.op = "add_work_item"
    /\ ret.res = Ok(0)
    /\ ret.arg # Standup
    /\ Cardinality(DOMAIN work_items) >= 3

\* Every row of work_times with a work item names a row of work_items.
ForeignKeyHolds ==
    \A t \in DOMAIN work_times : work_times[t] \subseteq ItemIds(work_items)

\* C17: in every state each row of work_times with a work_item has the id of
\* a row of work_items; and set_current_work with an id no row of work_items
\* has fails and leaves work_times as it was.
C17_ForeignKey ==
    /\ []ForeignKeyHolds
    /\ [][\A item \in ItemArgs :
             (/\ ret'.op = "set_current_work"
              /\ SetCurrentWork(item)
              /\ ~(item \subseteq ItemIds(work_items))) =>
                 /\ ret'.res = Err(DbError)
                 /\ work_times' = work_times]_vars

\* An id no item has was refused, and the row written before it with the
\* default item's id is still there.
C17_Witness ==
    /\ ret.op = "set_current_work"
    /\ ~ret.res.ok
    /\ \E t \in DOMAIN work_times : work_times[t] = Some(work_items[Standup])
    /\ \E i \in 1 .. MaxItemId : i \notin ItemIds(work_items)

----------------------------------------------------------------------------
(* The life of a handle: set_current_work, drop, and the next open. *)

\* The clock of impl TimeProvider for chrono::Utc: it runs on, by a tick or to
\* the same tick of the next day.
Elapse ==
    /\ \E h \in {1, TicksPerDay} : now + h \in Time /\ now' = now + h
    /\ ret' = Call("elapse", Ok(Unit))
    /\ UNCHANGED <<work_items, work_times, key_value, expected_time,
                   opened, times, current_work>>

NextLifecycle ==
    \/ Elapse
    \/ \E item \in ItemArgs : SetCurrentWork(item)
    \/ Shutdown
    \/ Drop
    \/ Open

SpecLifecycle == InitOpened /\ [][NextLifecycle]_vars

\* C16: when the handle is released (dropped, or dropped by an open that
\* fails), the shutdown row of key_value holds the instant of the release and
\* nothing else, whatever it held before; the other rows stay.
C16_ShutdownIsWrittenAtRelease ==
    [][(ret'.op = "drop" \/ (ret'.op = "open" /\ ~ret'.res.ok)) =>
          /\ key_value'.shutdown = Some(now)
          /\ ~opened'
          /\ key_value'.default_time = DefaultKv(key_value).default_time
          /\ key_value'.account_start = key_value.account_start]_vars

\* A handle was dropped today that was opened on a day after the first one
\* (the day has an expected_time row and no work): the shutdown written by
\* the drop before that open has been replaced.
C16_Witness ==
    /\ ret.op = "drop"
    /\ key_value.shutdown = Some(now)
    /\ \E d \in DOMAIN expected_time : d > 0 /\ StartsOn(work_times, d) = {}

\* C19: when the handle was released with work going on (the last row on the
\* shutdown's date has a work item) and the store is opened on a later day,
\* the open succeeds and the last row on the shutdown's date is a stop
\* marker afterwards, so that the day's duration is computed.
C19_OpenClosesTheDay ==
    [][(ret'.op = "open" /\ RecoveryDue) =>
          /\ ret'.res.ok
          /\ ~IsSome(LastWorkOn(work_times', Date(Unwrap(key_value.shutdown))))
          /\ work_times_to_duration(
                get_work_on_date(work_times', Date(Unwrap(key_value.shutdown)))).ok]_vars

\* What holds of the open: the claim, when the work did not begin at the very
\* instant of the release; when it did, the open fails and the day stays open.
OpenClosesTheDayUnlessSameInstant ==
    [][(ret'.op = "open" /\ RecoveryDue) =>
          IF Unwrap(key_value.shutdown) \in DOMAIN work_times
          THEN /\ ~ret'.res.ok
               /\ work_times' = work_times
               /\ ~opened'
          ELSE /\ ret'.res.ok
               /\ ~IsSome(LastWorkOn(work_times', Date(Unwrap(key_value.shutdown))))
               /\ work_times_to_duration(
                     get_work_on_date(work_times', Date(Unwrap(key_value.shutdown)))).ok]_vars

\* C20: no step removes a row of work_times or changes its work_item, except
\* set_current_work at the row's own instant; an open (its recovery) changes
\* no row and adds at most one, a stop marker; only set_current_work and open
\* write to work_times at all.
C20_LogIsAppendOnly ==
    [][/\ \A t \in DOMAIN work_times :
             /\ t \in DOMAIN work_times'
             /\ \/ work_times'[t] = work_times[t]
                \/ ret'.op = "set_current_work" /\ t = now
       /\ ret'.op = "open" =>
             /\ \A t \in DOMAIN work_times : work_times'[t] = work_times[t]
             /\ Cardinality(DOMAIN work_times' \ DOMAIN work_times) <= 1
             /\ \A t \in DOMAIN work_times' \ DOMAIN work_times :
                   work_times'[t] = None
       /\ ret'.op \notin {"set_current_work", "open"} =>
             work_times' = work_times]_vars

\* An open on a later day has found work going on at the shutdown and the
\* log holds the stop marker at the shutdown instant after the work's row.
C20_Witness ==
    /\ ret.op = "open" /\ ret.res.ok
    /\ IsSome(key_value.shutdown)
    /\ Date(Unwrap(key_value.shutdown)) < Date(now)
    /\ Unwrap(key_value.shutdown) \in DOMAIN work_times
    /\ work_times[Unwrap(key_value.shutdown)] = None
    /\ \E t \in DOMAIN work_times :
          /\ t < Unwrap(key_value.shutdown)
          /\ Date(t) = Date(Unwrap(key_value.shutdown))
          /\ IsSome(work_times[t])

----------------------------------------------------------------------------
(* The order of work and stop rows within a day. *)

\* The rows of date d, by start, are in turn with and without a work item.
Alternates(wt, d) ==
    \A t, u \in StartsOn(wt, d) :
        (t < u /\ \A v \in StartsOn(wt, d) : ~(t < v /\ v < u)) =>
            IsSome(wt[t]) # IsSome(wt[u])
AllAlternate(wt) == \A d \in {Date(t) : t \in DOMAIN wt} : Alternates(wt, d)

\* C18 as stated: in every state reached through set_current_work and
\* recovery, the rows of each day, by start, alternate between rows with a
\* work item and stop markers.
C18_DaysAlternate == AllAlternate(work_times)

\* C18 as amended: the store keeps the rows of a day alternating only when
\* the writes alternate.  A set_current_work later than every row of today,
\* with a value that is a work item where today's latest row is a stop marker
\* and a stop marker where it is a work item, keeps alternating days
\* alternating; so does a recovery whose shutdown instant is later than every
\* row of its date.
C18_AlternatingWritesKeepAlternation ==
    [][/\ \A item \in ItemArgs :
             (/\ ret'.op = "set_current_work" /\ ret'.res.ok
              /\ \A t \in RowsToday : t < now
              /\ RowsToday # {} =>
                    IsSome(LastWorkOn(work_times, Date(now))) # IsSome(item)
              /\ SetCurrentWork(item)
              /\ AllAlternate(work_times)) =>
                 AllAlternate(work_times')
       /\ (/\ ret'.op = "add_work_end_at_shutdown"
           /\ work_times' # work_times
           /\ \A t \in StartsOn(work_times, Date(Unwrap(key_value.shutdown))) :
                 t < Unwrap(key_value.shutdown)
           /\ AllAlternate(work_times)) =>
              AllAlternate(work_times')]_vars

\* Recovery has closed a day after its work: the stop marker at the shutdown
\* instant follows a row with a work item, and every day alternates.
C18_Witness ==
    /\ ret.op = "add_work_end_at_shutdown" /\ ret.res.ok
    /\ IsSome(key_value.shutdown)
    /\ Unwrap(key_value.shutdown) \in DOMAIN work_times
    /\ work_times[Unwrap(key_value.shutdown)] = None
    /\ IsLatest(Unwrap(key_value.shutdown),
                StartsOn(work_times, Date(Unwrap(key_value.shutdown))))
    /\ Cardinality(StartsOn(work_times, Date(Unwrap(key_value.shutdown)))) >= 2
    /\ AllAlternate(work_times)

----------------------------------------------------------------------------
(* The accounting calls over a store that is written to between them, under
   a clock that runs on. *)

\* The list work_times_to_duration is handed: one that ends with work going
\* on, for which it reports Inconsistent.
DurationArg == <<[work_item |-> Some(1), start |-> 0]>>

InitAccounting ==
    /\ now = 0
    /\ work_items = DefaultItems(<<>>)
    /\ work_times = <<>>
    /\ key_value = DefaultKv(EmptyKv)
    /\ expected_time = FixedExpected(<<>>, <<>>, DefaultKv(EmptyKv), 0)
    /\ opened = TRUE
    /\ times = DurationArg
    /\ current_work = None
    /\ ret = Call("open", Ok(Unit))

NextAccounting ==
    \/ Elapse
    \/ \E item \in ItemArgs : SetCurrentWork(item)
    \/ GetWorkTimeByDay
    \/ TimeDiff
    \/ GetTimeDiff
    \/ WorkTimesToDuration
    \/ \E d \in Dates : GetExpectedWorkOrInsertDefault(d)

SpecAccounting == InitAccounting /\ [][NextAccounting]_vars

AccountingOps ==
    {"get_work_time_by_day", "time_diff", "get_time_diff",
     "work_times_to_duration", "get_expected_work_or_insert_default"}

\* C21: a call of get_work_time_by_day, time_diff, get_time_diff,
\* work_times_to_duration or get_expected_work_or_insert_default leaves
\* work_times and work_items as they are, also when it reports Inconsistent;
\* of the store it changes only expected_time, and there it only adds rows
\* for dates that had none.
C21_AccountingLeavesLogAndCatalog ==
    [][ret'.op \in AccountingOps =>
          /\ work_times' = work_times
          /\ work_items' = work_items
          /\ key_value' = key_value
          /\ \A d \in DOMAIN expected_time :
                d \in DOMAIN expected_time' /\ expected_time'[d] = expected_time[d]]_vars

\* time_diff has reported Inconsistent for a day of the log and has stored a
\* quota for a date that is no row's and not the first day's.
C21_Witness ==
    /\ ret.op = "time_diff"
    /\ ~ret.res.ok
    /\ ret.res.val # Panic
    /\ ret.res.val.date \in {Date(t) : t \in DOMAIN work_times}
    /\ \E d \in DOMAIN expected_time : d # 0 /\ StartsOn(work_times, d) = {}

----------------------------------------------------------------------------
(* The expected_time rows written by Database::open and by
   get_expected_work_or_insert_default. *)

NextBackfill ==
    \/ Elapse
    \/ \E item \in ItemArgs : SetCurrentWork(item)
    \/ Drop
    \/ Open
    \/ SetDefaultTime(8 * 60 * 60)

SpecBackfill == InitOpened /\ [][NextBackfill]_vars

NextLazy ==
    \/ NextBackfill
    \/ \E d \in Dates : GetExpectedWorkOrInsertDefault(d)

SpecLazy == InitOpened /\ [][NextLazy]_vars

\* The quota of the policy: 0 for a Saturday, a Sunday and a holiday, the
\* stored default_time for any other date.
PolicyQuota(kv, d) ==
    IF IsWeekend(d) \/ d \in Holidays THEN 0 ELSE Unwrap(kv.default_time)

\* C22: an expected_time row that an open or a call of
\* get_expected_work_or_insert_default creates holds 0 when its date is a
\* Saturday, a Sunday or a holiday, and the stored default_time otherwise.
C22_LazyRowsFollowPolicy ==
    [][\A d \in DOMAIN expected_time' \ DOMAIN expected_time :
          expected_time'[d] = PolicyQuota(key_value', d)]_vars

\* What holds of the rows: the ones get_expected_work_or_insert_default
\* creates follow the policy; the ones an open creates hold the stored
\* default_time whatever the date is.
LazyRowsFollowPolicyUnlessOpen ==
    [][\A d \in DOMAIN expected_time' \ DOMAIN expected_time :
          expected_time'[d] = IF ret'.op = "open"
                              THEN Unwrap(key_value'.default_time)
                              ELSE PolicyQuota(key_value', d)]_vars

\* C23: an open that succeeds leaves an expected_time row for today's date
\* and for every date that has a work_times row, adds rows for no other
\* date, and leaves every row that was there with its value, also when
\* default_time is no longer what it was when the row was written.  (An open
\* that fails writes no expected_time row.)
C23_BackfillFillsTheGaps ==
    [][ret'.op = "open" =>
          /\ \A d \in DOMAIN expected_time :
                d \in DOMAIN expected_time' /\ expected_time'[d] = expected_time[d]
          /\ ret'.res.ok =>
                DOMAIN expected_time' =
                    DOMAIN expected_time \cup {Date(now)}
                        \cup {Date(t) : t \in DOMAIN work_times'}
          /\ ~ret'.res.ok => expected_time' = expected_time]_vars

\* An open after default_time was changed: the first day's row still holds
\* the quota it was written with, and an earlier day with work has got a row
\* with the new one.
C23_Witness ==
    /\ ret.op = "open" /\ ret.res.ok
    /\ key_value.default_time = Some(8 * 60 * 60)
    /\ 0 \in DOMAIN expected_time /\ expected_time[0] = DefaultTime
    /\ \E d \in DOMAIN expected_time :
          /\ d # Date(now)
          /\ StartsOn(work_times, d) # {}
          /\ expected_time[d] = 8 * 60 * 60

----------------------------------------------------------------------------
(* The catalog over the life of the store: the handle is dropped and the
   store opened again between the calls. *)

NextCatalogLife ==
    \/ NextCatalog
    \/ Drop
    \/ Open

SpecCatalogLife == InitOpened /\ [][NextCatalogLife]_vars

\* C24: no step removes a row of work_items or changes its name or its id:
\* every (name, id) pair get_available_work would return before the step it
\* would return after it, a row that appears has a name and an id no row had,
\* and get_available_work returns the pairs of the table as it is; so a pair
\* once returned is returned by every later call.
C24_CatalogOnlyGrows ==
    [][/\ get_available_work(work_items) \subseteq get_available_work(work_items')
       /\ \A n \in DOMAIN work_items' \ DOMAIN work_items :
             work_items'[n] \notin ItemIds(work_items)
       /\ ret'.op = "get_available_work" =>
             /\ ret'.res = Ok(get_available_work(work_items'))
             /\ work_items' = work_items]_vars

\* get_available_work on a store opened again after two names were added:
\* it returns the default item with the id the first open gave it, and the
\* two others.
C24_Witness ==
    /\ ret.op = "get_available_work"
    /\ IsSome(key_value.shutdown)
    /\ <<Standup, 1>> \in ret.res.val
    /\ Cardinality(ret.res.val) >= 3

----------------------------------------------------------------------------
(* DateRange as an iterator: new, then next until it returns None. *)

\* The dates an iterator is made over; the last one stands for
\* NaiveDate::MAX, where adding a day panics.
RangeDates == QuotaDates
LastDate == MaxQuotaDate

\* DateRange::new(start, end): the struct, with the arguments kept beside it.
\* res is what the last call of next returned, panic whether it panicked.
DateRangeNew(start, end) ==
    [op |-> "DateRange::new", arg |-> <<start, end>>,
     self |-> [end |-> end, current |-> start],
     yielded |-> <<>>, res |-> None, panic |-> FALSE]

InitDateRange ==
    /\ now = 0
    /\ work_items = <<>>
    /\ work_times = <<>>
    /\ key_value = EmptyKv
    /\ expected_time = <<>>
    /\ opened = FALSE
    /\ times = <<>>
    /\ current_work = None
    /\ ret \in {DateRangeNew(start, end) : start, end \in RangeDates}

\* The for loop has an iterator it has not seen the end of.
DateRangeLive ==
    IF ret.op = "DateRange::new" THEN TRUE
    ELSE ret.op = "DateRange::next" /\ ~ret.panic /\ IsSome(ret.res)

\* DateRange::next, as the for loop calls it; yielded collects what it returns
DateRangeNext ==
    /\ DateRangeLive
    /\ ret' =
          IF DateRangeDone(ret.self.current, ret.self.end)
          THEN [ret EXCEPT !.op = "DateRange::next", !.res = None]
          ELSE IF ret.self.current = LastDate
          THEN [ret EXCEPT !.op = "DateRange::next", !.res = None, !.panic = TRUE]
          ELSE [ret EXCEPT !.op = "DateRange::next",
                           !.self.current = ret.self.current + 1,
                           !.yielded = Append(ret.yielded, ret.self.current),
                           !.res = Some(ret.self.current)]
    /\ UNCHANGED <<now, work_items, work_times, key_value,
                   expected_time, opened, times, current_work>>

\* The loop goes on as long as next returns a date.
SpecDateRange == InitDateRange /\ [][DateRangeNext]_vars /\ WF_vars(DateRangeNext)

\* The dates d with start <= d < end, ascending
RECURSIVE RangeSeq(_, _)
RangeSeq(start, end) ==
    IF start >= end THEN <<>> ELSE <<start>> \o RangeSeq(start + 1, end)
IsPrefix(p, q) == Len(p) <= Len(q) /\ \A i \in 1 .. Len(p) : p[i] = q[i]
DateRangeEnded == ret.op = "DateRange::next" /\ ~ret.panic /\ ret.res = None

\* C25: for every pair (start, end) the iterator yields the dates d with
\* start <= d < end in ascending order and nothing else, never panics, and
\* returns None in the end; for start >= end it yields nothing.
C25_DateRangeTerminates ==
    /\ [](ret.op = "DateRange::next" =>
             /\ ~ret.panic
             /\ IsPrefix(ret.yielded, RangeSeq(ret.arg[1], ret.arg[2]))
             /\ ret.res = None => ret.yielded = RangeSeq(ret.arg[1], ret.arg[2]))
    /\ <>DateRangeEnded

\* What holds of the iterator: the claim for start <= end; for start > end it
\* yields every date from start on and panics at the last date there is.
DateRangeTerminatesUnlessStartAfterEnd ==
    /\ [](ret.op = "DateRange::next" =>
             IF ret.arg[1] <= ret.arg[2]
             THEN /\ ~ret.panic
                  /\ IsPrefix(ret.yielded, RangeSeq(ret.arg[1], ret.arg[2]))
                  /\ ret.res = None => ret.yielded = RangeSeq(ret.arg[1], ret.arg[2])
             ELSE /\ IsPrefix(ret.yielded, RangeSeq(ret.arg[1], LastDate))
                  /\ ret.panic => ret.yielded = RangeSeq(ret.arg[1], LastDate)
                  /\ ret.res = None => ret.panic)
    /\ (ret.arg[1] <= ret.arg[2]) ~> DateRangeEnded
    /\ (ret.arg[1] > ret.arg[2]) ~> (ret.op = "DateRange::next" /\ ret.panic)

----------------------------------------------------------------------------
(* main.rs: the GUI's copy of the current work. *)

\* Timetrax::new: the store is opened (a failure panics in unwrap, and no
\* Timetrax is made), and current_work is read with get_current_work.
TimetraxNew ==
    /\ OpenStore
    /\ current_work' = IF ret'.res.ok THEN get_current_work(work_times', now)
                       ELSE None

\* Timetrax::update(Message::ChangeWork(v))
ChangeWorkCachesOnError(v) ==
    /\ opened
    /\ IF current_work = v
       THEN /\ ret' = CallOn("ChangeWork", v, Ok(Unit))
            /\ UNCHANGED <<work_times, current_work>>
       ELSE /\ now \in DOMAIN work_times \/ Cardinality(DOMAIN work_times) < MaxEvents
            /\ current_work' = v
            /\ IF v \subseteq ItemIds(work_items)
               THEN /\ work_times' = Upsert(work_times, now, v)
                    /\ ret' = CallOn("ChangeWork", v, Ok(Unit))
               ELSE /\ work_times' = work_times
                    /\ ret' = CallOn("ChangeWork", v, Err(DbError))
    /\ UNCHANGED <<now, work_items, key_value, expected_time, opened, times>>
ChangeWork(v) ==
    /\ opened
    /\ IF current_work = v
       THEN /\ ret' = CallOn("ChangeWork", v, Ok(Unit))
            /\ UNCHANGED <<work_times, current_work>>
       ELSE /\ now \in DOMAIN work_times \/ Cardinality(DOMAIN work_times) < MaxEvents
            /\ IF v \subseteq ItemIds(work_items)
               THEN /\ work_times' = Upsert(work_times, now, v)
                    /\ current_work' = v
                    /\ ret' = CallOn("ChangeWork", v, Ok(Unit))
               ELSE /\ work_times' = work_times
                    /\ current_work' = current_work
                    /\ ret' = CallOn("ChangeWork", v, Err(DbError))
    /\ UNCHANGED <<now, work_items, key_value, expected_time, opened, times>>

\* The window is opened, the radio buttons are pressed while the clock runs
\* on, and the window is closed, which drops the store's handle.
NextGui ==
    \/ Elapse
    \/ TimetraxNew
    \/ \E v \in ItemArgs : ChangeWork(v)
    \/ Drop

SpecGui == InitOpened /\ [][NextGui]_vars

CacheAgrees(cw, wt, t) == cw = get_current_work(wt, t)

\* C26: ChangeWork(v) writes to work_times only when v is not the cached
\* current_work; it sets the cache to v when the write succeeds and leaves
\* cache and log as they are when the write fails or v is the cached value.
\* Timetrax::new loads the cache from get_current_work, and from then on,
\* as long as the date stays the same, every ChangeWork leaves the cache
\* equal to what get_current_work returns.
C26_CacheFollowsStore ==
    [][/\ ret'.op = "ChangeWork" =>
             /\ work_times' # work_times => ret'.arg # current_work
             /\ ret'.arg = current_work =>
                   work_times' = work_times /\ current_work' = current_work
             /\ ret'.res.ok => current_work' = ret'.arg
             /\ ~ret'.res.ok =>
                   work_times' = work_times /\ current_work' = current_work
       /\ (ret'.op = "open" /\ ret'.res.ok) =>
             CacheAgrees(current_work', work_times', now')
       /\ (/\ ret'.op \in {"ChangeWork", "elapse"}
           /\ Date(now') = Date(now)
           /\ CacheAgrees(current_work, work_times, now)) =>
             CacheAgrees(current_work', work_times', now')]_vars

\* In every state of a live window the cache is what get_current_work
\* returns, or today has no row yet: the date has changed since the cache was
\* written, and the cache still holds yesterday's work.
CacheAgreesOrNewDay ==
    opened =>
        \/ CacheAgrees(current_work, work_times, now)
        \/ StartsOn(work_times, Date(now)) = {}

\* A ChangeWork to an id that is no work item has failed after one that
\* succeeded: the cache holds the work that was written, not the refused one,
\* and it is what get_current_work returns.
C26_Witness ==
    /\ ret.op = "ChangeWork"
    /\ ~ret.res.ok
    /\ IsSome(current_work)
    /\ current_work # ret.arg
    /\ CacheAgrees(current_work, work_times, now)

====
